---------------------------- MODULE Spec2Model ----------------------------
(***************************************************************************)
(* Model of crates/runtimes/src/kernelspecs.rs: kernelspec discovery       *)
(* (read_kernelspec_at, read_kernels_dir, get_runtimes), the launch        *)
(* command builder (Runtime::command, RuntimeInstance::new) and the port   *)
(* negotiation (peek_ports, from_peeking_ports).                           *)
(*                                                                         *)
(* Three groups of variables, one per part of the file; each part has its  *)
(* own specification (SpecCommand, SpecDiscovery, SpecPorts, SpecLaunches) *)
(* that leaves the other groups at their initial value.                    *)
(***************************************************************************)
EXTENDS Integers, Sequences, FiniteSets

VARIABLES
    \* --- launch path: read_kernelspec_at -> Runtime::command -> spawn
    kernel_dir,        \* the directory handed to read_kernelspec_at
    connection_path,   \* the connection-file path handed to command
    runtime,           \* None, or the Result of read_kernelspec_at
    cmd,               \* None, or the Result of Runtime::command
    instance,          \* None, or the Result of RuntimeInstance::new
    \* --- discovery path: get_runtimes over data_dirs
    fs,                \* per base directory: Unreadable, or its listing
    scan_pc,           \* per base directory: position of its read_kernels_dir
    scan_idx,          \* per base directory: items of the stream consumed
    valid_kernelspecs, \* per base directory: the scan's local Vec<Runtime>
    log,               \* the log::warn! records emitted so far
    runtimes,          \* None, or the Result of get_runtimes
    \* --- port negotiation: from_peeking_ports -> peek_ports
    calls,             \* the from_peeking_ports calls in flight
    os_ports,          \* the ports the OS may hand out on the bind address
    peek_pc,           \* per call: position inside peek_ports
    peek_i,            \* per call: loop counter of `for _ in 0..num`
    ports,             \* per call: the local Vec<u16>
    listener,          \* per call: the port its live TcpListener holds, or None
    peek_result,       \* per call: None, or the Result of peek_ports
    connection_info,   \* per call: None, or the Result of from_peeking_ports
    next_uuid          \* state of the uuid generator (Uuid::new_v4)

cmd_vars  == <<kernel_dir, connection_path, runtime, cmd, instance>>
disc_vars == <<fs, scan_pc, scan_idx, valid_kernelspecs, log, runtimes>>
port_vars == <<calls, os_ports, peek_pc, peek_i, ports, listener, peek_result,
               connection_info, next_uuid>>
vars      == <<cmd_vars, disc_vars, port_vars>>

\* Option<T>
None == [some |-> FALSE]
Some(v) == [some |-> TRUE, value |-> v]

Ok(v)  == [ok |-> TRUE, value |-> v]
Err(e) == [ok |-> FALSE, err |-> e]

SeqsUpTo(S, n) == UNION {[1..k -> S] : k \in 0..n}

Range(s) == {s[i] : i \in 1..Len(s)}

(***************************************************************************)
(* Bounds of the model.                                                    *)
(***************************************************************************)
MaxArgv == 3
MaxEntries == 2
MaxPort == 5
MaxSharedPort == 2

(***************************************************************************)
(* Kernelspec Reader                                                       *)
(***************************************************************************)
Placeholder == "{connection_file}"

\* Path::file_name(): the final segment, None when there is none or it is ".."
file_name(path) ==
    IF Len(path) = 0 \/ path[Len(path)] = ".." THEN None ELSE Some(path[Len(path)])

\* fs.load(path/kernel.json) followed by serde_json::from_str
ParseKernelJson(json) ==
    IF json.kind = "missing" THEN Err("MissingDescriptor")
    ELSE IF json.kind = "malformed" THEN Err("MalformedDescriptor")
    ELSE Ok(json.spec)

\* A faulty variant of read_kernelspec_at: takes the name from the descriptor.
read_kernelspec_at_NameFromJson(dir) ==
    IF file_name(dir.path) = None THEN Err("InvalidKernelspecDirectory")
    ELSE IF ~dir.is_dir THEN Err("NotADirectory")
    ELSE LET spec == ParseKernelJson(dir.kernel_json) IN
         IF ~spec.ok THEN spec
         ELSE Ok([name |-> spec.value.display_name,
                  path |-> dir.path,
                  spec |-> spec.value])

read_kernelspec_at(dir) ==
    IF file_name(dir.path) = None THEN Err("InvalidKernelspecDirectory")
    ELSE IF ~dir.is_dir THEN Err("NotADirectory")
    ELSE LET spec == ParseKernelJson(dir.kernel_json) IN
         IF ~spec.ok THEN spec
         ELSE Ok([name |-> file_name(dir.path).value,
                  path |-> dir.path,
                  spec |-> spec.value])

(***************************************************************************)
(* Launch Command Builder                                                  *)
(***************************************************************************)
EmptyArgv == "Empty argv in kernelspec"
InvalidArgv == "Invalid argv in kernelspec"
MissingConnectionFilePlaceholder == "Missing 'connection_file' in argv in kernelspec"

\* argv.contains(&"{connection_file}".to_string())
Contains(argv, tok) == \E i \in 1..Len(argv) : argv[i] = tok

\* cmd.envs(env) when spec.env is Some
Envs(spec) == IF spec.env = None THEN {} ELSE spec.env.value

\* A faulty variant of command: substitutes the first placeholder only.
command_FirstOnly(self, path) ==
    LET argv == self.spec.argv
        first == CHOOSE i \in 1..Len(argv) :
                    /\ argv[i] = Placeholder
                    /\ \A j \in 1..(i - 1) : argv[j] # Placeholder
    IN  IF Len(argv) = 0 THEN Err(EmptyArgv)
        ELSE IF Len(argv) < 2 THEN Err(InvalidArgv)
        ELSE IF ~Contains(argv, Placeholder)
             THEN Err(MissingConnectionFilePlaceholder)
        ELSE Ok([program |-> argv[1],
                 args |-> [i \in 1..(Len(argv) - 1) |->
                              IF i + 1 = first THEN path ELSE argv[i + 1]],
                 envs |-> Envs(self.spec)])

\* A faulty variant of command: an argv with several placeholders is refused.
command_ExactlyOne(self, path) ==
    LET argv == self.spec.argv
        count == Cardinality({i \in 1..Len(argv) : argv[i] = Placeholder})
    IN  IF Len(argv) = 0 THEN Err(EmptyArgv)
        ELSE IF Len(argv) < 2 THEN Err(InvalidArgv)
        ELSE IF count # 1 THEN Err(MissingConnectionFilePlaceholder)
        ELSE Ok([program |-> argv[1],
                 args |-> [i \in 1..(Len(argv) - 1) |->
                              IF argv[i + 1] = Placeholder THEN path ELSE argv[i + 1]],
                 envs |-> Envs(self.spec)])

\* A faulty variant of command: the length check comes first and covers the
\* empty argv.
command_NoEmptyCheck(self, path) ==
    LET argv == self.spec.argv IN
    IF Len(argv) < 2 THEN Err(InvalidArgv)
    ELSE IF ~Contains(argv, Placeholder)
         THEN Err(MissingConnectionFilePlaceholder)
    ELSE Ok([program |-> argv[1],
             args |-> [i \in 1..(Len(argv) - 1) |->
                          IF argv[i + 1] = Placeholder THEN path ELSE argv[i + 1]],
             envs |-> Envs(self.spec)])

command(self, path) ==
    LET argv == self.spec.argv IN
    IF Len(argv) = 0 THEN Err(EmptyArgv)
    ELSE IF Len(argv) < 2 THEN Err(InvalidArgv)
    ELSE IF ~Contains(argv, Placeholder)
         THEN Err(MissingConnectionFilePlaceholder)
    ELSE Ok([program |-> argv[1],
             args |-> [i \in 1..(Len(argv) - 1) |->
                          IF argv[i + 1] = Placeholder THEN path ELSE argv[i + 1]],
             envs |-> Envs(self.spec)])

(***************************************************************************)
(* Inputs of the launch path                                               *)
(***************************************************************************)
Tokens == {"python3", "-f", Placeholder}

\* the argv of the two descriptors of test_get_kernelspecs
PythonArgv == <<"python3", "-m", "ipykernel_launcher", "-f", Placeholder>>
DenoArgv == <<"deno", "run", "--unstable", "--allow-net", "--allow-read",
              "https://deno.land/std/http/file_server.ts", Placeholder>>

ArgvInputs == SeqsUpTo(Tokens, MaxArgv) \cup {PythonArgv, DenoArgv}

EnvInputs == {None, Some({<<"PYTHONUNBUFFERED", "1">>})}

KernelJsonInputs ==
    {[kind |-> "missing"], [kind |-> "malformed"]}
    \cup {[kind |-> "ok",
           spec |-> [argv |-> a, display_name |-> "Python 3", env |-> e]] :
            a \in ArgvInputs, e \in EnvInputs}

KernelDirInputs ==
    {[path |-> p, is_dir |-> d, kernel_json |-> j] :
        p \in {<<"jupyter", "kernels", "python">>, <<"jupyter", "kernels", "..">>},
        d \in BOOLEAN,
        j \in KernelJsonInputs}

ConnectionPathInputs == {"/tmp/conn.json", "/run/user/kernel-1.json"}

(***************************************************************************)
(* Launch path: one kernelspec directory is read, and the Runtime it       *)
(* yields is handed to command and to RuntimeInstance::new.                *)
(***************************************************************************)
CommandInit ==
    /\ kernel_dir \in KernelDirInputs
    /\ connection_path \in ConnectionPathInputs
    /\ runtime = None
    /\ cmd = None
    /\ instance = None

CommandIdle ==
    /\ kernel_dir = None
    /\ connection_path = ""
    /\ runtime = None
    /\ cmd = None
    /\ instance = None

ReadKernelspecAt ==
    /\ runtime = None
    /\ runtime' = read_kernelspec_at(kernel_dir)
    /\ UNCHANGED <<kernel_dir, connection_path, cmd, instance>>
    /\ UNCHANGED <<disc_vars, port_vars>>

RuntimeCommand ==
    /\ runtime # None
    /\ runtime.ok
    /\ cmd = None
    /\ cmd' = command(runtime.value, connection_path)
    /\ UNCHANGED <<kernel_dir, connection_path, runtime, instance>>
    /\ UNCHANGED <<disc_vars, port_vars>>

\* runtime.command(&connection_path)? then cmd.spawn()?
RuntimeInstanceNew ==
    /\ runtime # None
    /\ runtime.ok
    /\ instance = None
    /\ \E spawned \in BOOLEAN :
          LET c == command(runtime.value, connection_path) IN
          instance' = IF ~c.ok THEN c
                      ELSE IF ~spawned THEN Err("spawn")
                      ELSE Ok([runtime |-> runtime.value, process |-> c.value])
    /\ UNCHANGED <<kernel_dir, connection_path, runtime, cmd>>
    /\ UNCHANGED <<disc_vars, port_vars>>

(***************************************************************************)
(* Discovery path                                                          *)
(***************************************************************************)
\* dirs::data_dirs(): an ordered list of base directories
DataDirs == << <<"home", "share", "jupyter">>, <<"usr", "share", "jupyter">> >>

Dirs == 1..Len(DataDirs)

\* dir.join("kernels")
KernelsDir(d) == Append(DataDirs[d], "kernels")

\* the descriptor of test_get_kernelspecs
KernelJsonOk ==
    [kind |-> "ok",
     spec |-> [argv |-> PythonArgv, display_name |-> "Python 3", env |-> Some({})]]

EntryNames == {"python", "deno"}

\* What a directory can hold under one name: a plain file, or a directory
\* whose kernel.json is missing/unreadable, malformed, or well-formed.
EntryInputs ==
    {[name |-> n, is_dir |-> FALSE, kernel_json |-> [kind |-> "missing"]] :
        n \in EntryNames}
    \cup {[name |-> n, is_dir |-> TRUE, kernel_json |-> j] :
            n \in EntryNames,
            j \in {[kind |-> "missing"], [kind |-> "malformed"], KernelJsonOk}}

\* The items of the stream fs.read_dir yields: Ok(path) or Err(io error)
ItemInputs == {Err("io")} \cup {Ok(e) : e \in EntryInputs}

\* the names inside one directory are distinct
ListingInputs ==
    {s \in SeqsUpTo(ItemInputs, MaxEntries) :
        \A i, j \in 1..Len(s) :
            (i # j /\ s[i].ok /\ s[j].ok) => s[i].value.name # s[j].value.name}

FsInputs ==
    {[readable |-> FALSE, items |-> <<>>]}
    \cup {[readable |-> TRUE, items |-> s] : s \in ListingInputs}

\* the PathBuf the stream yields for an entry, with what fs answers for it
KernelDirOf(d, entry) ==
    [path |-> Append(KernelsDir(d), entry.name),
     is_dir |-> entry.is_dir,
     kernel_json |-> entry.kernel_json]

\* log::warn!("Error reading kernelspec directory: {:?}", err)
Warning(d, i) == [dir |-> d, item |-> i]

DiscoveryInit ==
    /\ fs \in [Dirs -> FsInputs]
    /\ scan_pc = [d \in Dirs |-> "read_dir"]
    /\ scan_idx = [d \in Dirs |-> 0]
    /\ valid_kernelspecs = [d \in Dirs |-> <<>>]
    /\ log = {}
    /\ runtimes = None

DiscoveryIdle ==
    /\ fs = <<>>
    /\ scan_pc = <<>>
    /\ scan_idx = <<>>
    /\ valid_kernelspecs = <<>>
    /\ log = {}
    /\ runtimes = None

\* fs.read_dir(&path).await? : an unreadable directory ends the scan with Err
ScanReadDir(d) ==
    /\ scan_pc[d] = "read_dir"
    /\ scan_pc' = [scan_pc EXCEPT ![d] = IF fs[d].readable THEN "next" ELSE "failed"]
    /\ UNCHANGED <<fs, scan_idx, valid_kernelspecs, log, runtimes>>
    /\ UNCHANGED <<cmd_vars, port_vars>>

\* one turn of `while let Some(path) = kernelspec_dirs.next().await`
ScanNext(d) ==
    /\ scan_pc[d] = "next"
    /\ scan_idx[d] < Len(fs[d].items)
    /\ LET i == scan_idx[d] + 1
           item == fs[d].items[i]
       IN  /\ scan_idx' = [scan_idx EXCEPT ![d] = i]
           /\ IF item.ok
              THEN /\ log' = log
                   /\ IF item.value.is_dir
                      THEN LET kernelspec ==
                                 read_kernelspec_at(KernelDirOf(d, item.value))
                           IN  valid_kernelspecs' =
                                 IF kernelspec.ok
                                 THEN [valid_kernelspecs EXCEPT
                                         ![d] = Append(@, kernelspec.value)]
                                 ELSE valid_kernelspecs
                      ELSE valid_kernelspecs' = valid_kernelspecs
              ELSE /\ log' = log \cup {Warning(d, i)}
                   /\ valid_kernelspecs' = valid_kernelspecs
    /\ UNCHANGED <<fs, scan_pc, runtimes>>
    /\ UNCHANGED <<cmd_vars, port_vars>>

\* the stream is exhausted: Ok(valid_kernelspecs)
ScanDone(d) ==
    /\ scan_pc[d] = "next"
    /\ scan_idx[d] = Len(fs[d].items)
    /\ scan_pc' = [scan_pc EXCEPT ![d] = "done"]
    /\ UNCHANGED <<fs, scan_idx, valid_kernelspecs, log, runtimes>>
    /\ UNCHANGED <<cmd_vars, port_vars>>

\* the Result of the read_kernels_dir future of base directory d
ScanResult(d) ==
    IF scan_pc[d] = "failed" THEN Err("read_dir") ELSE Ok(valid_kernelspecs[d])

RECURSIVE Flatten(_)
Flatten(ss) == IF ss = <<>> THEN <<>> ELSE Head(ss) \o Flatten(Tail(ss))

\* A faulty variant of CollectOk: keeps the first specification of each name.
CollectOk_DedupByName(results) ==
    LET all == Flatten([d \in 1..Len(results) |->
                          IF results[d].ok THEN results[d].value ELSE <<>>])
        first(k) == \A j \in 1..(k - 1) : all[j].name # all[k].name
        RECURSIVE keep(_)
        keep(k) == IF k > Len(all) THEN <<>>
                   ELSE IF first(k) THEN <<all[k]>> \o keep(k + 1)
                   ELSE keep(k + 1)
    IN  keep(1)

\* .into_iter().filter_map(Result::ok).flatten().collect()
CollectOk(results) ==
    Flatten([d \in 1..Len(results) |->
                IF results[d].ok THEN results[d].value ELSE <<>>])

\* join_all(kernel_dirs).await, then the collect; always Ok
GetRuntimesJoin ==
    /\ runtimes = None
    /\ \A d \in Dirs : scan_pc[d] \in {"done", "failed"}
    /\ runtimes' = Ok(CollectOk([d \in Dirs |-> ScanResult(d)]))
    /\ UNCHANGED <<fs, scan_pc, scan_idx, valid_kernelspecs, log>>
    /\ UNCHANGED <<cmd_vars, port_vars>>

DiscoveryNext ==
    \/ \E d \in Dirs : ScanReadDir(d)
    \/ \E d \in Dirs : ScanNext(d)
    \/ \E d \in Dirs : ScanDone(d)
    \/ GetRuntimesJoin

(***************************************************************************)
(* Port Negotiator                                                         *)
(***************************************************************************)
\* peek_ports(ip, 5) in from_peeking_ports
NumChannels == 5

Ip == "127.0.0.1"

\* the ports some live TcpListener on the bind address holds
Bound == {listener[c].value : c \in {k \in DOMAIN calls : listener[k] # None}}

\* A faulty variant of NewKey: the nil UUID, whatever the generator's state.
NewKey_Nil == next_uuid - next_uuid

\* Uuid::new_v4().to_string(): a value the generator has not issued before
NewKey == next_uuid

PortsInit(callers, universe) ==
    /\ calls = callers
    /\ os_ports = universe
    /\ peek_pc = [c \in DOMAIN callers |-> "bind"]
    /\ peek_i = [c \in DOMAIN callers |-> 0]
    /\ ports = [c \in DOMAIN callers |-> <<>>]
    /\ listener = [c \in DOMAIN callers |-> None]
    /\ peek_result = [c \in DOMAIN callers |-> None]
    /\ connection_info = [c \in DOMAIN callers |-> None]
    /\ next_uuid = 1

PortsIdle == PortsInit(<<>>, {})

\* TcpListener::bind(addr_zeroport).await succeeds: the OS hands out any port
\* of the address that no live listener holds
PeekBind(c) ==
    /\ peek_pc[c] = "bind"
    /\ peek_i[c] < NumChannels
    /\ \E p \in os_ports \ Bound :
          listener' = [listener EXCEPT ![c] = Some(p)]
    /\ peek_pc' = [peek_pc EXCEPT ![c] = "local_addr"]
    /\ UNCHANGED <<calls, os_ports, peek_i, ports, peek_result, connection_info,
                   next_uuid>>
    /\ UNCHANGED <<cmd_vars, disc_vars>>

\* listener.local_addr()? ; ports.push(addr.port()); the listener goes out of
\* scope at the end of the loop body
PeekPush(c) ==
    /\ peek_pc[c] = "local_addr"
    /\ ports' = [ports EXCEPT ![c] = Append(@, listener[c].value)]
    /\ listener' = [listener EXCEPT ![c] = None]
    /\ peek_i' = [peek_i EXCEPT ![c] = @ + 1]
    /\ peek_pc' = [peek_pc EXCEPT ![c] = "bind"]
    /\ UNCHANGED <<calls, os_ports, peek_result, connection_info, next_uuid>>
    /\ UNCHANGED <<cmd_vars, disc_vars>>

\* A faulty variant of PeekFail: hands back the ports acquired so far.
PeekFail_Partial(c, e) ==
    /\ peek_result' = [peek_result EXCEPT ![c] = Ok(ports[c])]
    /\ ports' = [ports EXCEPT ![c] = <<>>]
    /\ listener' = [listener EXCEPT ![c] = None]
    /\ peek_pc' = [peek_pc EXCEPT ![c] = "returned"]
    /\ UNCHANGED <<calls, os_ports, peek_i, connection_info, next_uuid>>
    /\ UNCHANGED <<cmd_vars, disc_vars>>

\* the `?` of bind or of local_addr: return Err, dropping ports and listener
PeekFail(c, e) ==
    /\ peek_result' = [peek_result EXCEPT ![c] = Err(e)]
    /\ ports' = [ports EXCEPT ![c] = <<>>]
    /\ listener' = [listener EXCEPT ![c] = None]
    /\ peek_pc' = [peek_pc EXCEPT ![c] = "returned"]
    /\ UNCHANGED <<calls, os_ports, peek_i, connection_info, next_uuid>>
    /\ UNCHANGED <<cmd_vars, disc_vars>>

\* TcpListener::bind(addr_zeroport).await? fails (no free port, or any io error)
PeekBindFail(c) ==
    /\ peek_pc[c] = "bind"
    /\ peek_i[c] < NumChannels
    /\ PeekFail(c, "bind")

\* listener.local_addr()? fails
PeekLocalAddrFail(c) ==
    /\ peek_pc[c] = "local_addr"
    /\ PeekFail(c, "local_addr")

\* Ok(ports) after the loop
PeekReturn(c) ==
    /\ peek_pc[c] = "bind"
    /\ peek_i[c] = NumChannels
    /\ peek_result' = [peek_result EXCEPT ![c] = Ok(ports[c])]
    /\ ports' = [ports EXCEPT ![c] = <<>>]
    /\ peek_pc' = [peek_pc EXCEPT ![c] = "returned"]
    /\ UNCHANGED <<calls, os_ports, peek_i, listener, connection_info, next_uuid>>
    /\ UNCHANGED <<cmd_vars, disc_vars>>

ConnectionInfo(ip, kernel_name, p, key) ==
    [transport |-> "tcp",
     ip |-> ip,
     stdin_port |-> p[1],
     control_port |-> p[2],
     hb_port |-> p[3],
     shell_port |-> p[4],
     iopub_port |-> p[5],
     signature_scheme |-> "hmac-sha256",
     key |-> key,
     kernel_name |-> Some(kernel_name)]

\* let ports = peek_ports(ip, 5).await?; Ok(ConnectionInfo { .. })
FromPeekingPorts(c) ==
    /\ peek_pc[c] = "returned"
    /\ connection_info[c] = None
    /\ IF peek_result[c].ok
       THEN /\ connection_info' =
                 [connection_info EXCEPT
                    ![c] = Ok(ConnectionInfo(calls[c].ip, calls[c].kernel_name,
                                             peek_result[c].value, NewKey))]
            /\ next_uuid' = next_uuid + 1
       ELSE /\ connection_info' = [connection_info EXCEPT ![c] = peek_result[c]]
            /\ next_uuid' = next_uuid
    /\ UNCHANGED <<calls, os_ports, peek_pc, peek_i, ports, listener, peek_result>>
    /\ UNCHANGED <<cmd_vars, disc_vars>>

PortsNext ==
    \/ \E c \in DOMAIN calls : PeekBind(c)
    \/ \E c \in DOMAIN calls : PeekPush(c)
    \/ \E c \in DOMAIN calls : PeekBindFail(c)
    \/ \E c \in DOMAIN calls : PeekLocalAddrFail(c)
    \/ \E c \in DOMAIN calls : PeekReturn(c)
    \/ \E c \in DOMAIN calls : FromPeekingPorts(c)

(***************************************************************************)
(* Specifications                                                          *)
(***************************************************************************)
CommandNext ==
    \/ ReadKernelspecAt
    \/ RuntimeCommand
    \/ RuntimeInstanceNew

\* the launch path: reader, command builder, spawn
InitCommand == CommandInit /\ DiscoveryIdle /\ PortsIdle

SpecCommand == InitCommand /\ [][CommandNext]_vars

\* get_runtimes: the concurrent scans of all base directories
InitDiscovery == DiscoveryInit /\ CommandIdle /\ PortsIdle

SpecDiscovery == InitDiscovery /\ [][DiscoveryNext]_vars

\* one from_peeking_ports call
InitPorts ==
    /\ PortsInit(<<[ip |-> Ip, kernel_name |-> "python"]>>, 1..MaxPort)
    /\ CommandIdle /\ DiscoveryIdle

SpecPorts == InitPorts /\ [][PortsNext]_vars

\* two from_peeking_ports calls running concurrently (two launch attempts)
InitLaunches ==
    /\ PortsInit(<<[ip |-> Ip, kernel_name |-> "python"],
                   [ip |-> Ip, kernel_name |-> "deno"]>>, 1..MaxSharedPort)
    /\ CommandIdle /\ DiscoveryIdle

SpecLaunches == InitLaunches /\ [][PortsNext]_vars

(***************************************************************************)
(* Properties of the launch path (checked under SpecCommand)               *)
(***************************************************************************)
\* the argv of the Runtime that command was called on
LaunchArgv == runtime.value.spec.argv

PlaceholderCount(argv) == Cardinality({i \in 1..Len(argv) : argv[i] = Placeholder})

\* C2, as stated: every argv shorter than two tokens, the empty one included,
\* fails with InvalidArgv, and an argv of two or more tokens without the
\* placeholder fails with MissingConnectionFilePlaceholder.
C2_ShortArgvIsInvalidArgv ==
    cmd # None =>
        /\ Len(LaunchArgv) < 2 => cmd = Err(InvalidArgv)
        /\ (Len(LaunchArgv) >= 2 /\ PlaceholderCount(LaunchArgv) = 0)
              => cmd = Err(MissingConnectionFilePlaceholder)

\* C2, amended: the empty argv fails with EmptyArgv, an argv of exactly one
\* token with InvalidArgv, an argv of two or more tokens without the
\* placeholder with MissingConnectionFilePlaceholder; no command is produced,
\* and RuntimeInstance::new passes the same error on without spawning.
C2_ArgvErrors ==
    LET expected ==
            IF Len(LaunchArgv) = 0 THEN Err(EmptyArgv)
            ELSE IF Len(LaunchArgv) = 1 THEN Err(InvalidArgv)
            ELSE Err(MissingConnectionFilePlaceholder)
        rejected ==
            Len(LaunchArgv) < 2 \/ PlaceholderCount(LaunchArgv) = 0
    IN  /\ (cmd # None /\ rejected) => cmd = expected
        /\ (instance # None /\ rejected) => instance = expected

\* C2 witness: command has rejected an empty argv.
C2_Witness ==
    /\ cmd # None
    /\ Len(LaunchArgv) = 0
    /\ cmd = Err(EmptyArgv)

\* C3: an accepted argv yields program argv[0] and len(argv)-1 arguments, the
\* i-th being the connection-file path where argv[i+1] is the placeholder and
\* argv[i+1] itself elsewhere; the ipykernel example yields python3 with
\* -m ipykernel_launcher -f /tmp/conn.json.
C3_CommandSubstitutes ==
    (cmd # None /\ cmd.ok) =>
        /\ cmd.value.program = LaunchArgv[1]
        /\ Len(cmd.value.args) = Len(LaunchArgv) - 1
        /\ \A i \in 1..(Len(LaunchArgv) - 1) :
              cmd.value.args[i] =
                 IF LaunchArgv[i + 1] = Placeholder
                 THEN connection_path
                 ELSE LaunchArgv[i + 1]
        /\ (LaunchArgv = <<"python3", "-m", "ipykernel_launcher", "-f",
                           "{connection_file}">>
            /\ connection_path = "/tmp/conn.json")
              => /\ cmd.value.program = "python3"
                 /\ cmd.value.args =
                       <<"-m", "ipykernel_launcher", "-f", "/tmp/conn.json">>

\* C3 witness: the ipykernel command line has been built for /tmp/conn.json.
C3_Witness ==
    /\ cmd # None
    /\ cmd.ok
    /\ LaunchArgv[1] = "python3"
    /\ Len(LaunchArgv) = 5
    /\ connection_path = "/tmp/conn.json"
    /\ cmd.value.args[4] = "/tmp/conn.json"

\* C4, as stated: command succeeds only on an argv of two or more tokens
\* with exactly one placeholder token.
C4_ExactlyOnePlaceholder ==
    (cmd # None /\ cmd.ok) =>
        /\ Len(LaunchArgv) >= 2
        /\ PlaceholderCount(LaunchArgv) = 1

\* C4, amended: command succeeds only on an argv of two or more tokens with
\* at least one placeholder token, an argv with several placeholder tokens
\* is accepted, and read_kernelspec_at returns the specification of every
\* directory with a well-formed kernel.json whatever its argv.
C4_LaunchableOnlyWithPlaceholder ==
    /\ (cmd # None /\ cmd.ok) =>
          /\ Len(LaunchArgv) >= 2
          /\ PlaceholderCount(LaunchArgv) >= 1
    /\ (cmd # None /\ Len(LaunchArgv) >= 2 /\ PlaceholderCount(LaunchArgv) >= 2)
          => cmd.ok
    /\ (/\ runtime # None
        /\ kernel_dir.is_dir
        /\ kernel_dir.kernel_json.kind = "ok"
        /\ kernel_dir.path[Len(kernel_dir.path)] # "..")
          => /\ runtime.ok
             /\ runtime.value.spec.argv = kernel_dir.kernel_json.spec.argv

\* C4 witness: command has accepted an argv that read_kernelspec_at returned
\* and that holds two placeholder tokens.
C4_Witness ==
    /\ cmd # None
    /\ cmd.ok
    /\ PlaceholderCount(LaunchArgv) >= 2

\* C10: a command that was built carries the connection-file path among its
\* arguments, and neither an argument nor the program is the placeholder.
C10_PathReachesKernel ==
    (cmd # None /\ cmd.ok) =>
        /\ \E i \in 1..Len(cmd.value.args) : cmd.value.args[i] = connection_path
        /\ \A i \in 1..Len(cmd.value.args) : cmd.value.args[i] # Placeholder
        /\ cmd.value.program # Placeholder

(***************************************************************************)
(* Properties of discovery (checked under SpecDiscovery)                   *)
(***************************************************************************)
\* the positions of base directory d's listing that hold a directory with a
\* readable, well-formed kernel.json
GoodEntries(d) ==
    {i \in 1..Len(fs[d].items) :
        /\ fs[d].items[i].ok
        /\ fs[d].items[i].value.is_dir
        /\ fs[d].items[i].value.kernel_json.kind = "ok"}

\* the positions of base directory d's listing, among those the scan has
\* consumed, where something failed: an erroneous listing item, or a
\* directory whose kernel.json the Reader could not load or parse
FailedEntries(d) ==
    {i \in 1..scan_idx[d] :
        \/ ~fs[d].items[i].ok
        \/ /\ fs[d].items[i].value.is_dir
           /\ fs[d].items[i].value.kernel_json.kind # "ok"}

\* C5: the scan of a parent directory whose listing opens never fails, and
\* returns exactly one specification per entry that is a directory with a
\* readable, well-formed kernel.json, named by the final path segment and
\* carrying the parsed descriptor; every other entry is left out.
C5_ScanReturnsExactlyTheGoodEntries ==
    \A d \in DOMAIN fs :
        fs[d].readable =>
            /\ scan_pc[d] # "failed"
            /\ scan_pc[d] = "done" =>
                  LET got == valid_kernelspecs[d] IN
                  /\ Len(got) = Cardinality(GoodEntries(d))
                  /\ \A i \in GoodEntries(d) :
                        \E k \in 1..Len(got) :
                           /\ got[k].name = fs[d].items[i].value.name
                           /\ got[k].path =
                                 DataDirs[d] \o <<"kernels", fs[d].items[i].value.name>>
                           /\ got[k].spec = fs[d].items[i].value.kernel_json.spec
                  /\ \A k \in 1..Len(got) :
                        /\ got[k].name = got[k].path[Len(got[k].path)]
                        /\ \E i \in GoodEntries(d) :
                              got[k].name = fs[d].items[i].value.name

\* C5 witness: a finished scan of a directory that holds a valid entry next
\* to a subdirectory without a usable kernel.json has returned exactly the
\* valid one.
C5_Witness ==
    \E d \in DOMAIN fs :
        /\ scan_pc[d] = "done"
        /\ Len(fs[d].items) = 2
        /\ Cardinality(GoodEntries(d)) = 1
        /\ \E i \in 1..2 :
              /\ fs[d].items[i].ok
              /\ fs[d].items[i].value.is_dir
              /\ fs[d].items[i].value.kernel_json.kind = "missing"
        /\ Len(valid_kernelspecs[d]) = 1
        /\ valid_kernelspecs[d][1].name = "python"

\* the (base directory, position) pairs of the specifications returned by
\* the scans that succeeded
ScannedPairs ==
    UNION {{<<d, k>> : k \in 1..Len(valid_kernelspecs[d])} :
             d \in {e \in DOMAIN fs : fs[e].readable}}

\* C6: get_runtimes returns Ok whatever the interleaving of the scans; its
\* list holds every specification of every scan that succeeded, once per
\* scan that returned it (none is dropped for sharing its name with
\* another), and nothing else; an unreadable base directory adds nothing.
C6_RegistryIsFlattenedUnion ==
    runtimes # None =>
        /\ runtimes.ok
        /\ Len(runtimes.value) = Cardinality(ScannedPairs)
        /\ \A pr \in ScannedPairs :
              \E j \in 1..Len(runtimes.value) :
                 runtimes.value[j] = valid_kernelspecs[pr[1]][pr[2]]
        /\ \A j \in 1..Len(runtimes.value) :
              \E pr \in ScannedPairs :
                 runtimes.value[j] = valid_kernelspecs[pr[1]][pr[2]]
        /\ \A d \in DOMAIN fs : ~fs[d].readable => valid_kernelspecs[d] = <<>>

\* C6 witness: one base directory cannot be read, the other holds the deno
\* and python kernels, and get_runtimes has returned exactly those two.
C6_Witness ==
    /\ runtimes # None
    /\ runtimes.ok
    /\ \E d \in DOMAIN fs : ~fs[d].readable
    /\ Len(runtimes.value) = 2
    /\ {runtimes.value[j].name : j \in 1..Len(runtimes.value)} = {"deno", "python"}

\* C9: every failure a scan has skipped over left a warning in the log.
C9_EveryFailureIsLogged ==
    \A d \in DOMAIN fs :
        \A i \in FailedEntries(d) : [dir |-> d, item |-> i] \in log

(***************************************************************************)
(* Properties of the port negotiation (checked under SpecPorts, one call,  *)
(* and SpecLaunches, two concurrent calls)                                 *)
(***************************************************************************)
\* the five ports of a ConnectionInfo, in the order they were assigned
DescriptorPorts(info) ==
    <<info.stdin_port, info.control_port, info.hb_port, info.shell_port,
      info.iopub_port>>

\* C1: a successful peek_ports returns exactly N ports, pairwise distinct.
C1_PortsPairwiseDistinct ==
    \A c \in DOMAIN calls :
        (peek_result[c] # None /\ peek_result[c].ok) =>
            /\ Len(peek_result[c].value) = NumChannels
            /\ \A i, j \in 1..Len(peek_result[c].value) :
                  i # j => peek_result[c].value[i] # peek_result[c].value[j]

\* C7: a call of peek_ports that returned before its N binds were done (one
\* of its attempts failed) returned an error and no ports, holds no
\* listener, and from_peeking_ports produces no descriptor from it.
C7_FailureReturnsNoPorts ==
    \A c \in DOMAIN calls :
        (peek_pc[c] = "returned" /\ peek_i[c] < NumChannels) =>
            /\ peek_result[c] # None
            /\ ~peek_result[c].ok
            /\ ports[c] = <<>>
            /\ listener[c] = None
            /\ connection_info[c] # None => ~connection_info[c].ok

\* C7 witness: a bind failed after earlier iterations had acquired ports,
\* and from_peeking_ports has returned the error.
C7_Witness ==
    \E c \in DOMAIN calls :
        /\ peek_pc[c] = "returned"
        /\ peek_i[c] >= 2
        /\ peek_i[c] < NumChannels
        /\ ~peek_result[c].ok
        /\ connection_info[c] # None
        /\ ~connection_info[c].ok

\* C8, as stated: the descriptors of two launch attempts share neither a
\* port nor the signing key.
C8_DescriptorsShareNoPort ==
    \A c1, c2 \in DOMAIN calls :
        (/\ c1 # c2
         /\ connection_info[c1] # None /\ connection_info[c1].ok
         /\ connection_info[c2] # None /\ connection_info[c2].ok) =>
            /\ Range(DescriptorPorts(connection_info[c1].value))
                  \cap Range(DescriptorPorts(connection_info[c2].value)) = {}
            /\ connection_info[c1].value.key # connection_info[c2].value.key

\* C8, amended: the descriptors of two launch attempts never share the
\* signing key, and each carries, in the order stdin, control, heartbeat,
\* shell, iopub, the five ports its own negotiation returned (the ports of
\* two descriptors may coincide).
C8_DescriptorsAreFresh ==
    /\ \A c1, c2 \in DOMAIN calls :
          (/\ c1 # c2
           /\ connection_info[c1] # None /\ connection_info[c1].ok
           /\ connection_info[c2] # None /\ connection_info[c2].ok) =>
              connection_info[c1].value.key # connection_info[c2].value.key
    /\ \A c \in DOMAIN calls :
          (connection_info[c] # None /\ connection_info[c].ok) =>
              /\ peek_result[c].ok
              /\ DescriptorPorts(connection_info[c].value) = peek_result[c].value
              /\ connection_info[c].value.kernel_name = Some(calls[c].kernel_name)

\* C8 witness: two launch attempts have both produced a descriptor, with
\* different keys and a port in common.
C8_Witness ==
    \E c1, c2 \in DOMAIN calls :
        /\ c1 # c2
        /\ connection_info[c1] # None /\ connection_info[c1].ok
        /\ connection_info[c2] # None /\ connection_info[c2].ok
        /\ connection_info[c1].value.key # connection_info[c2].value.key
        /\ Range(DescriptorPorts(connection_info[c1].value))
              \cap Range(DescriptorPorts(connection_info[c2].value)) # {}

=============================================================================
